---------------------------- MODULE Spec2Model ----------------------------
(***************************************************************************)
(* Iterative multi-pass enrichment engine of code-graph-enricher:          *)
(* EnricherPass.process and IterativeEnricher (add_enricher,               *)
(* _compute_hash, _save_layer, _save_indexes, enrich) of                   *)
(* src/src/enricher/iterative_enricher.py, with the passes the tests       *)
(* and the command line register.                                          *)
(*                                                                         *)
(* Python objects live in `heap` (reference -> graph document), so that    *)
(* "a deep copy" and "the same object" are different things in the model.  *)
(* A dict is a function whose DOMAIN is its key set: 'enrichment' in node  *)
(* is "enrichment" \in DOMAIN node.  The enrichment map of a node or edge  *)
(* is iterated by the code (dict order = order of first insertion), so it  *)
(* is kept as the sequence of its items [key, data] in that order.         *)
(***************************************************************************)
EXTENDS Integers, Sequences, FiniteSets, Bags, TLC

(***************************************************************************)
(* Bounds of the model.                                                    *)
(***************************************************************************)
MaxIter == 3        \* largest max_iterations argument tried
MaxPasses == 2      \* longest pipeline registered
MaxRuns == 2        \* enrich calls made on one controller

(***************************************************************************)
(* Dict helpers.                                                           *)
(***************************************************************************)
EmptyDict == [k \in {} |-> 0]

\* d[k] = v, the key being created when absent
DictSet(d, k, v) == [x \in DOMAIN d \cup {k} |-> IF x = k THEN v ELSE d[x]]

\* d.get(k, default)
DictGet(d, k, default) == IF k \in DOMAIN d THEN d[k] ELSE default

Range(s) == {s[i] : i \in DOMAIN s}

\* the enrichment map {}: no item
EmptyEnrichment == << >>

\* the keys of an enrichment map
EnrKeys(e) == {e[i].key : i \in DOMAIN e}

\* e[k], for a key the map has
EnrGet(e, k) == e[CHOOSE i \in DOMAIN e : e[i].key = k].data

\* as EnrSet, the map replaced by one holding the new item only
EnrSet_Replacing(e, k, v) == << [key |-> k, data |-> v] >>

\* e[k] = v: an existing key keeps its place, a new key goes last
EnrSet(e, k, v) ==
  IF k \in EnrKeys(e)
  THEN [i \in DOMAIN e |-> IF e[i].key = k THEN [key |-> k, data |-> v] ELSE e[i]]
  ELSE Append(e, [key |-> k, data |-> v])

\* as SortKeys, the items serialised in the order of the map
SortKeys_Unsorted(e) == e

\* json.dumps(e, sort_keys=True): the items by key, whatever their order
SortKeys(e) == [k \in EnrKeys(e) |-> EnrGet(e, k)]

\* f"layer{self.layer_num}"
LayerKey(n) == CASE n = 1 -> "layer1"
                 [] n = 2 -> "layer2"
                 [] n = 3 -> "layer3"

(***************************************************************************)
(* Base documents (tests/conftest.py and tests/test_iterative_enricher.py) *)
(***************************************************************************)
Node(id, type, name, line, column, metadata) ==
  [id |-> id, type |-> type, name |-> name,
   path |-> "src/services/user_service.py",
   location |-> [line |-> line, column |-> column],
   metadata |-> metadata]

Edge(source, target, type) == [source |-> source, target |-> target, type |-> type]

sample_graph ==
  [nodes |-> << Node("file1", "file", "user_service.py", 1, 0,
                     [imports |-> <<"json", "typing", "models">>]),
                Node("class1", "class", "UserService", 10, 0, EmptyDict),
                Node("func1", "function", "get_user", 15, 4, EmptyDict),
                Node("func2", "function", "create_user", 25, 4, EmptyDict),
                Node("func3", "function", "validate_email", 35, 4, EmptyDict) >>,
   edges |-> << Edge("file1", "class1", "contains"),
                Edge("class1", "func1", "contains"),
                Edge("class1", "func2", "contains"),
                Edge("class1", "func3", "contains"),
                Edge("func2", "func3", "calls") >>]

empty_graph == [nodes |-> << >>, edges |-> << >>]

\* a document that was enriched before: its nodes (not its edges) already
\* carry the layer-1 metadata MockEnricher gives them, the class also a
\* classification under the key of a fourth layer; the second edge names a
\* node that does not exist
previously_enriched_graph ==
  [nodes |-> << DictSet(Node("class1", "class", "UserService", 10, 0, EmptyDict),
                        "enrichment",
                        << [key |-> "layer1",
                            data |-> [mock_data |-> "test_value", node_id |-> "class1"]],
                           [key |-> "layer4",
                            data |-> [classification |-> "infrastructure"]] >>),
                DictSet(Node("func1", "function", "get_user", 15, 4, EmptyDict),
                        "enrichment",
                        << [key |-> "layer1",
                            data |-> [mock_data |-> "test_value", node_id |-> "func1"]] >>) >>,
   edges |-> << Edge("class1", "func1", "contains"),
                Edge("func1", "ghost", "calls") >>]

\* a document whose top-level 'edges' container is absent
graph_without_edges ==
  [nodes |-> << Node("class1", "class", "UserService", 10, 0, EmptyDict),
                Node("func1", "function", "get_user", 15, 4, EmptyDict) >>]

\* a JSON string found where a node or edge object is expected
JsonString(str) == [json_string |-> str]

IsObject(x) == "json_string" \notin DOMAIN x

\* a document whose 'edges' container is a list of strings, not of edges
graph_with_malformed_edges ==
  [nodes |-> << Node("class1", "class", "UserService", 10, 0, EmptyDict),
                Node("func1", "function", "get_user", 15, 4, EmptyDict) >>,
   edges |-> << JsonString("class1->func1") >>]

BaseGraphs == {sample_graph, empty_graph, previously_enriched_graph,
               graph_without_edges, graph_with_malformed_edges}

\* both top-level containers are there
HasContainers(doc) == {"nodes", "edges"} \subseteq DOMAIN doc

\* both containers are there and hold objects
WellFormed(doc) ==
  /\ HasContainers(doc)
  /\ \A i \in DOMAIN doc.nodes : IsObject(doc.nodes[i])
  /\ \A i \in DOMAIN doc.edges : IsObject(doc.edges[i])


(***************************************************************************)
(* Passes.  A pass is [layer_num, name, kind]; kind selects the            *)
(* enrich_node / enrich_edge pair of the subclass.                         *)
(***************************************************************************)
MockLayer1 == [layer_num |-> 1, name |-> "layer1", kind |-> "mock"]
MockLayer2 == [layer_num |-> 2, name |-> "layer2", kind |-> "mock"]
ContextAwarePass == [layer_num |-> 1, name |-> "context_aware", kind |-> "context_aware"]
\* a pass that returns {} for every node and every edge, registered under
\* the layer number and the name of the first mock pass
NullPass == [layer_num |-> 1, name |-> "layer1", kind |-> "null"]

\* a pass that gives a node the number of nodes of the graph it is handed
\* that carry layer1, and gives edges nothing: a function of its arguments
RankPass == [layer_num |-> 1, name |-> "rank", kind |-> "rank"]

\* SemanticEnricher.__init__ and DomainEnricher.__init__
SemanticPass == [layer_num |-> 2, name |-> "semantic", kind |-> "semantic"]
DomainPass == [layer_num |-> 3, name |-> "domain", kind |-> "domain"]

\* StructuralEnricher.__init__
StructuralPass == [layer_num |-> 1, name |-> "structural", kind |-> "structural"]

Passes == {MockLayer1, MockLayer2, ContextAwarePass, NullPass, SemanticPass,
           DomainPass, StructuralPass}

(***************************************************************************)
(* String facts about the node names of the base documents: what the       *)
(* substring, prefix, split and capitalize operations of the built-in      *)
(* passes give on them.                                                    *)
(***************************************************************************)
\* the keywords of the passes' lists that occur in name.lower()
NameContains(name) ==
  CASE name = "user_service.py" -> {"user", "service"}
    [] name = "UserService" -> {"user", "service"}
    [] name = "get_user" -> {"user", "get_user"}
    [] name = "create_user" -> {"user", "create_user"}
    [] name = "validate_email" -> {"validate"}
    [] OTHER -> {}

\* the prefixes create_, make_, build_, get_ the name starts with
NamePrefixes(name) ==
  CASE name = "get_user" -> {"get_"}
    [] name = "create_user" -> {"create_"}
    [] OTHER -> {}

\* SemanticEnricher._analyze_naming: conventions
NameConvention(name) ==
  CASE name \in {"user_service.py", "get_user", "create_user", "validate_email"} -> "snake_case"
    [] name = "UserService" -> "PascalCase"
    [] OTHER -> "unknown"

\* SemanticEnricher._analyze_naming: the lower-cased terms of the split
NameTerms(name) ==
  CASE name = "user_service.py" -> <<"user", "service.py">>
    [] name = "UserService" -> <<"user", "service">>
    [] name = "get_user" -> <<"get", "user">>
    [] name = "create_user" -> <<"create", "user">>
    [] name = "validate_email" -> <<"validate", "email">>
    [] OTHER -> <<name>>

\* SemanticEnricher._analyze_naming: the role prefixes some term starts with
RoleIndicators(name) ==
  CASE name = "get_user" -> <<"get">>
    [] name = "create_user" -> <<"create">>
    [] name = "validate_email" -> <<"validate">>
    [] OTHER -> << >>

\* str.capitalize on the domain keywords
Capitalize(term) ==
  CASE term = "user" -> "User"
    [] OTHER -> term

\* the successive "if test: result.append(x)" of the passes: the elements
\* of s whose test (field on) holds, in order
RECURSIVE SelectOn(_, _)
SelectOn(s, i) ==
  IF i > Len(s) THEN << >>
  ELSE (IF s[i].on THEN <<s[i]>> ELSE << >>) \o SelectOn(s, i + 1)

(***************************************************************************)
(* SemanticEnricher (layer 2)                                              *)
(***************************************************************************)
\* SemanticEnricher._detect_patterns
detect_patterns(node) ==
  LET has == NameContains(node.name)
      class_patterns ==
        << [p |-> "Entity",
            on |-> has \cap {"user", "product", "order", "item", "customer"} # {}],
           [p |-> "ValueObject",
            on |-> "value" \in has \/ DictGet(DictGet(node, "metadata", EmptyDict),
                                               "is_dataclass", FALSE)],
           [p |-> "Service", on |-> "service" \in has],
           [p |-> "Repository", on |-> has \cap {"repository", "repo"} # {}],
           [p |-> "Factory", on |-> has \cap {"factory", "builder"} # {}],
           [p |-> "DTO", on |-> "dto" \in has] >>
      function_patterns ==
        << [p |-> "FactoryFunction",
            on |-> NamePrefixes(node.name) \cap {"create_", "make_", "build_"} # {}],
           [p |-> "Strategy", on |-> "strategy" \in has] >>
      chosen == CASE node.type = "class" -> SelectOn(class_patterns, 1)
                  [] node.type = "function" -> SelectOn(function_patterns, 1)
                  [] OTHER -> << >>
  IN [i \in DOMAIN chosen |-> chosen[i].p]

\* SemanticEnricher._analyze_naming
analyze_naming(node) ==
  [terms |-> NameTerms(node.name),
   conventions |-> NameConvention(node.name),
   role_indicators |-> RoleIndicators(node.name)]

\* SemanticEnricher._classify_method_role
classify_method_role(node, naming) ==
  LET indicators == Range(naming.role_indicators)
      roles ==
        << [r |-> "getter", on |-> indicators \cap {"get", "fetch", "retrieve", "find"} # {}],
           [r |-> "setter", on |-> indicators \cap {"set", "update", "assign"} # {}],
           [r |-> "validator",
            on |-> indicators \cap {"validate", "check", "verify", "is", "has", "can"} # {}],
           [r |-> "calculator",
            on |-> indicators \cap {"calculate", "compute", "sum", "total", "average"} # {}],
           [r |-> "transformer",
            on |-> indicators \cap {"transform", "convert", "format", "parse", "process"} # {}],
           [r |-> "creator", on |-> indicators \cap {"create", "build", "make", "generate"} # {}],
           [r |-> "mutator",
            on |-> indicators \cap {"add", "remove", "delete", "insert", "append"} # {}] >>
      chosen == SelectOn(roles, 1)
  IN IF node.type # "function" THEN << >>
     ELSE IF chosen = << >> THEN <<"general">>
     ELSE [i \in DOMAIN chosen |-> chosen[i].r]

\* SemanticEnricher.enrich_node (every name of the base documents is public)
semantic_enrich_node(node) ==
  LET naming == analyze_naming(node)
  IN [patterns |-> detect_patterns(node),
      naming_analysis |-> naming,
      method_roles |-> classify_method_role(node, naming),
      api_surface |-> "public"]

\* SemanticEnricher.enrich_edge
semantic_enrich_edge(edge) ==
  [semantic_type |->
     CASE edge.type = "contains" -> "composition"
       [] edge.type = "imports" -> "dependency"
       [] edge.type = "inherits" -> "inheritance"
       [] edge.type = "calls" -> "invocation"
       [] OTHER -> "unknown"]

(***************************************************************************)
(* DomainEnricher (layer 3): reads the layer-2 data of the node            *)
(***************************************************************************)
\* as Layer2Of, reading the key layer1
Layer2Of_WrongKey(node) ==
  LET e == DictGet(node, "enrichment", EmptyEnrichment)
  IN IF "layer1" \in EnrKeys(e) THEN EnrGet(e, "layer1") ELSE EmptyDict

\* node.get('enrichment', {}).get('layer2', {})
Layer2Of(node) ==
  LET e == DictGet(node, "enrichment", EmptyEnrichment)
  IN IF "layer2" \in EnrKeys(e) THEN EnrGet(e, "layer2") ELSE EmptyDict

DomainKeywords ==
  {"user", "customer", "account", "profile", "product", "item", "catalog",
   "inventory", "order", "purchase", "transaction", "sale", "cart", "basket",
   "checkout", "payment", "invoice", "receipt", "billing", "shipping",
   "delivery", "address", "price", "discount", "coupon", "promotion"}

\* DomainEnricher._extract_domain_concepts: list(set(concepts)), as a set
extract_domain_concepts(node) ==
  LET layer2 == Layer2Of(node)
      patterns == Range(DictGet(layer2, "patterns", << >>))
      naming == DictGet(layer2, "naming_analysis", EmptyDict)
      terms == Range(DictGet(naming, "terms", << >>))
  IN (IF patterns \cap {"Entity", "ValueObject"} # {} THEN {node.name} ELSE {})
     \cup {Capitalize(t) : t \in terms \cap DomainKeywords}

\* DomainEnricher._identify_business_rules: the types of the rules found
identify_business_rules(node) ==
  LET layer2 == Layer2Of(node)
      method_roles == Range(DictGet(layer2, "method_roles", << >>))
      rules ==
        << [t |-> "validation", on |-> "validator" \in method_roles],
           [t |-> "calculation", on |-> "calculator" \in method_roles],
           [t |-> "constraint",
            on |-> NameContains(node.name)
                     \cap {"apply", "check", "verify", "enforce", "validate"} # {}] >>
      chosen == SelectOn(rules, 1)
  IN IF node.type # "function" THEN << >>
     ELSE [i \in DOMAIN chosen |->
             [type |-> chosen[i].t, name |-> node.name, line |-> node.location.line]]

\* DomainEnricher._detect_workflow_participation
detect_workflow_participation(node) ==
  IF node.type # "function" THEN << >>
  ELSE IF NameContains(node.name) \cap {"create_user", "update_user", "delete_user", "get_user"} # {}
  THEN <<"user_management">>
  ELSE << >>

\* as FindNode, the first node of the graph taken when none has the id
FindNode_OrFirst(graph, id) ==
  LET hits == {i \in DOMAIN graph.nodes : graph.nodes[i].id = id}
  IN IF graph.nodes = << >> THEN << >>
     ELSE IF hits = {} THEN <<graph.nodes[1]>>
     ELSE <<graph.nodes[CHOOSE i \in hits : \A j \in hits : i <= j]>>

\* next((n for n in graph['nodes'] if n['id'] == id), None): << >> for None
FindNode(graph, id) ==
  LET hits == {i \in DOMAIN graph.nodes : graph.nodes[i].id = id}
  IN IF hits = {} THEN << >>
     ELSE <<graph.nodes[CHOOSE i \in hits : \A j \in hits : i <= j]>>

\* DomainEnricher._infer_entity_relationships: the loop over the edges
RECURSIVE infer_from_edges(_, _, _)
infer_from_edges(node, graph, i) ==
  IF i > Len(graph.edges) THEN << >>
  ELSE LET edge == graph.edges[i]
           target == FindNode(graph, edge.target)
           here ==
             IF edge.source = node.id /\ edge.type = "contains"
                /\ target # << >> /\ target[1].type = "function"
                /\ "get_" \in NamePrefixes(target[1].name)
             THEN << [type |-> "HAS_ONE",
                      target |-> Capitalize(NameTerms(target[1].name)[2]),
                      inferred_from |-> <<node.name, target[1].name>>] >>
             ELSE << >>
       IN here \o infer_from_edges(node, graph, i + 1)

infer_entity_relationships(node, graph) ==
  LET patterns == Range(DictGet(Layer2Of(node), "patterns", << >>))
  IN IF node.type # "class" \/ "Entity" \notin patterns
     THEN << >>
     ELSE infer_from_edges(node, graph, 1)

\* DomainEnricher.enrich_node
domain_enrich_node(node, graph) ==
  [domain_concepts |-> extract_domain_concepts(node),
   business_rules |-> identify_business_rules(node),
   workflow_participation |-> detect_workflow_participation(node),
   entity_relationships |-> infer_entity_relationships(node, graph)]

\* DomainEnricher.enrich_edge
domain_enrich_edge(edge, graph) ==
  LET source_node == FindNode(graph, edge.source)
      target_node == FindNode(graph, edge.target)
      source_patterns == Range(DictGet(Layer2Of(source_node[1]), "patterns", << >>))
      target_patterns == Range(DictGet(Layer2Of(target_node[1]), "patterns", << >>))
  IN IF source_node = << >> \/ target_node = << >>
     THEN EmptyDict
     ELSE CASE edge.type = "contains" /\ "Entity" \in source_patterns ->
                 [domain_relationship |-> "DEFINES"]
            [] edge.type = "imports" /\ "Entity" \in source_patterns
                 /\ "Entity" \in target_patterns ->
                 [domain_relationship |-> "DEPENDS_ON"]
            [] edge.type = "imports" /\ ~("Entity" \in source_patterns
                                         /\ "Entity" \in target_patterns)
                 /\ "Service" \in source_patterns ->
                 [domain_relationship |-> "USES"]
            [] edge.type = "calls" -> [domain_relationship |-> "INVOKES"]
            [] OTHER -> EmptyDict

(***************************************************************************)
(* StructuralEnricher (layer 1)                                            *)
(***************************************************************************)
\* the files found under root_path, and the number of their lines that are
\* neither blank nor comments
SourceTree == {"src/services/user_service.py"}

SourceLines(path) == 40

\* StructuralEnricher._classify_by_name
classify_by_name(name, node_type) ==
  LET has == NameContains(name)
      infra_patterns == {"config", "settings", "setup", "init", "main", "utils",
                         "helper", "base", "abstract", "test", "mock", "fixture"}
      domain_patterns == {"user", "product", "order", "cart", "payment", "customer",
                          "account", "invoice", "item", "service", "repository",
                          "model", "entity"}
  IN CASE has \cap infra_patterns # {} -> "infrastructure"
       [] has \cap infra_patterns = {} /\ has \cap domain_patterns # {} -> "domain"
       [] has \cap (infra_patterns \cup domain_patterns) = {} /\ node_type = "file" ->
            "infrastructure"
       [] has \cap (infra_patterns \cup domain_patterns) = {} /\ node_type = "class" ->
            "domain"
       [] OTHER -> "unknown"

\* the imports of the node that are not in a standard-library list
LocalImports(imports, stdlib_imports) ==
  SelectOn([i \in DOMAIN imports |->
              [imp |-> imports[i], on |-> imports[i] \notin stdlib_imports]], 1)

\* StructuralEnricher._classify_by_imports: << >> for None
classify_by_imports(node) ==
  LET imports == DictGet(DictGet(node, "metadata", EmptyDict), "imports", << >>)
      domain_imports ==
        LocalImports(imports, {"os", "sys", "json", "logging", "typing",
                               "datetime", "pathlib"})
  IN IF node.type # "file" \/ imports = << >>
     THEN << >>
     ELSE IF Len(domain_imports) = 0
     THEN <<"infrastructure">>
     ELSE IF 2 * Len(domain_imports) > Len(imports)
     THEN <<"domain">>
     ELSE <<"mixed">>

\* StructuralEnricher._calculate_complexity
calculate_complexity(node, graph) ==
  LET complexity == [loc |-> 0, nesting_depth |-> 0, num_params |-> 0, num_methods |-> 0]
      num_methods ==
        Cardinality({e \in DOMAIN graph.edges :
                       graph.edges[e].source = node.id /\ graph.edges[e].type = "contains"})
  IN IF node.path \notin SourceTree
     THEN complexity
     ELSE CASE node.type = "file" -> [complexity EXCEPT !.loc = SourceLines(node.path)]
            [] node.type = "class" ->
                 [complexity EXCEPT !.num_methods = num_methods,
                                    !.loc = num_methods * 5 + 10]
            [] node.type = "function" ->
                 [complexity EXCEPT !.loc = 10, !.nesting_depth = 1]
            [] OTHER -> complexity

\* StructuralEnricher._calculate_dependencies
calculate_dependencies(node) ==
  LET imports == DictGet(DictGet(node, "metadata", EmptyDict), "imports", << >>)
      local_imports ==
        LocalImports(imports, {"os", "sys", "json", "logging", "typing",
                               "datetime", "pathlib", "dataclasses"})
  IN IF node.type = "file"
     THEN [import_depth |-> IF local_imports # << >> THEN 1 ELSE 0,
           num_imports |-> Len(imports),
           imports_from |-> imports]
     ELSE [import_depth |-> 0, num_imports |-> 0, imports_from |-> << >>]

\* StructuralEnricher.enrich_node
structural_enrich_node(node, graph) ==
  LET name_classification == classify_by_name(node.name, node.type)
      import_classification == classify_by_imports(node)
  IN [classification |-> IF import_classification # << >>
                         THEN import_classification[1]
                         ELSE name_classification,
      complexity |-> calculate_complexity(node, graph),
      dependencies |-> calculate_dependencies(node)]

\* StructuralEnricher.enrich_edge
structural_enrich_edge(edge) == [weight |-> 1, depth |-> 1]

(***************************************************************************)
(* enrich_node / enrich_edge of the pass p                                 *)
(***************************************************************************)
enrich_node(p, node, graph, context) ==
  CASE p.kind = "mock" -> [mock_data |-> "test_value", node_id |-> node.id]
    [] p.kind = "context_aware" ->
         [iteration |-> Len(context) + 1, has_context |-> Len(context) > 0]
    [] p.kind = "semantic" -> semantic_enrich_node(node)
    [] p.kind = "domain" -> domain_enrich_node(node, graph)
    [] p.kind = "structural" -> structural_enrich_node(node, graph)
    [] p.kind = "rank" ->
         [rank |-> Cardinality({i \in DOMAIN graph.nodes :
                      "layer1" \in EnrKeys(DictGet(graph.nodes[i], "enrichment",
                                                   EmptyEnrichment))})]
    [] OTHER -> EmptyDict

enrich_edge(p, edge, graph, context) ==
  CASE p.kind = "mock" -> [mock_edge |-> "edge_test"]
    [] p.kind = "semantic" -> semantic_enrich_edge(edge)
    [] p.kind = "domain" -> domain_enrich_edge(edge, graph)
    [] p.kind = "structural" -> structural_enrich_edge(edge)
    [] OTHER -> EmptyDict

(***************************************************************************)
(* EnricherPass.process                                                    *)
(***************************************************************************)
\* json.loads(json.dumps(doc)): a new document, rebuilt key by key
JsonRoundTrip(doc) ==
  [k \in DOMAIN doc |->
     IF k \in {"nodes", "edges"}
     THEN [i \in DOMAIN doc[k] |-> [f \in DOMAIN doc[k][i] |-> doc[k][i][f]]]
     ELSE doc[k]]

\* as Attach, an empty result clearing the enrichment map of the entity
Attach_Clearing(entity, layer_num, enrichment) ==
  IF enrichment = EmptyDict
  THEN DictSet(entity, "enrichment", EmptyEnrichment)
  ELSE DictSet(entity, "enrichment",
               EnrSet(DictGet(entity, "enrichment", EmptyEnrichment),
                      LayerKey(layer_num), enrichment))

\* as Attach, the result stored as the entity's metadata field
Attach_AsMetadata(entity, layer_num, enrichment) ==
  IF enrichment = EmptyDict
  THEN entity
  ELSE DictSet(entity, "metadata", enrichment)

\* as Attach, without the test "if enrichment:"
Attach_Unguarded(entity, layer_num, enrichment) ==
  DictSet(entity, "enrichment",
          EnrSet(DictGet(entity, "enrichment", EmptyEnrichment),
                 LayerKey(layer_num), enrichment))

\* if enrichment:
\*     if 'enrichment' not in entity: entity['enrichment'] = {}
\*     entity['enrichment'][f'layer{layer_num}'] = enrichment
Attach(entity, layer_num, enrichment) ==
  IF enrichment = EmptyDict
  THEN entity
  ELSE DictSet(entity, "enrichment",
               EnrSet(DictGet(entity, "enrichment", EmptyEnrichment),
                      LayerKey(layer_num), enrichment))

\* the node loop: every call sees the copy as enriched so far
RECURSIVE process_nodes(_, _, _, _)
process_nodes(p, g, context, i) ==
  IF i > Len(g.nodes)
  THEN g
  ELSE LET enrichment == enrich_node(p, g.nodes[i], g, context)
       IN process_nodes(p,
            [g EXCEPT !.nodes[i] = Attach(g.nodes[i], p.layer_num, enrichment)],
            context, i + 1)

RECURSIVE process_edges(_, _, _, _)
process_edges(p, g, context, i) ==
  IF i > Len(g.edges)
  THEN g
  ELSE LET enrichment == enrich_edge(p, g.edges[i], g, context)
       IN process_edges(p,
            [g EXCEPT !.edges[i] = Attach(g.edges[i], p.layer_num, enrichment)],
            context, i + 1)

\* the node loop and the edge loop of process with the entities visited in
\* the order given: order[k] is the position of the k-th entity visited
RECURSIVE visit_nodes(_, _, _, _, _)
visit_nodes(p, g, context, order, k) ==
  IF k > Len(order)
  THEN g
  ELSE LET i == order[k]
           enrichment == enrich_node(p, g.nodes[i], g, context)
       IN visit_nodes(p,
            [g EXCEPT !.nodes[i] = Attach(g.nodes[i], p.layer_num, enrichment)],
            context, order, k + 1)

RECURSIVE visit_edges(_, _, _, _, _)
visit_edges(p, g, context, order, k) ==
  IF k > Len(order)
  THEN g
  ELSE LET i == order[k]
           enrichment == enrich_edge(p, g.edges[i], g, context)
       IN visit_edges(p,
            [g EXCEPT !.edges[i] = Attach(g.edges[i], p.layer_num, enrichment)],
            context, order, k + 1)

\* the content process returns for the document doc when it visits the
\* nodes and the edges in the orders given
process_visiting(p, doc, context, node_order, edge_order) ==
  visit_edges(p, visit_nodes(p, JsonRoundTrip(doc), context, node_order, 1),
              context, edge_order, 1)

Max(S) == CHOOSE x \in S : \A y \in S : y <= x
NewRef(h) == Max(DOMAIN h) + 1

\* as ProcessTarget, without the copy: process works on its argument
ProcessTarget_InPlace(h, ref) == ref

\* the object process works on: a deep copy of its argument
ProcessTarget(h, ref) == NewRef(h)

\* process(graph, context) on the heap h, graph being the object `ref`:
\* [heap |-> the heap after the call, ret |-> the object returned]
process(p, h, ref, context) ==
  LET target == ProcessTarget(h, ref)
      enriched_graph == JsonRoundTrip(h[ref])
      done == process_edges(p, process_nodes(p, enriched_graph, context, 1), context, 1)
  IN [heap |-> DictSet(h, target, done), ret |-> target]

(***************************************************************************)
(* IterativeEnricher._compute_hash: the digest of the sorted, joined       *)
(* serialisations of the enrichment maps of the nodes that have one, i.e.  *)
(* (for a collision-free digest) the bag of these maps.                    *)
(***************************************************************************)
RECURSIVE enrichments_of(_, _)
enrichments_of(nodes, i) ==
  IF i > Len(nodes)
  THEN EmptyBag
  ELSE (IF "enrichment" \in DOMAIN nodes[i]
        THEN SetToBag({SortKeys(nodes[i].enrichment)})
        ELSE EmptyBag) (+) enrichments_of(nodes, i + 1)

\* as compute_hash, the digest taken over the layer keys of each enriched
\* node, not over the metadata under them
compute_hash_KeysOnly(graph) ==
  LET nodes == DictGet(graph, "nodes", << >>)
      enriched == {i \in DOMAIN nodes : "enrichment" \in DOMAIN nodes[i]}
  IN [keys \in {EnrKeys(nodes[i].enrichment) : i \in enriched} |->
        Cardinality({i \in enriched : EnrKeys(nodes[i].enrichment) = keys})]

compute_hash(graph) == enrichments_of(DictGet(graph, "nodes", << >>), 1)

(***************************************************************************)
(* IterativeEnricher._save_layer and _save_indexes (the documents written) *)
(***************************************************************************)
\* the document written to l{layer}-{enricher_name}.json; the 'generated'
\* timestamp of layer_metadata is left out
layer_document(graph, layer, enricher_name) ==
  DictSet(JsonRoundTrip(graph), "layer_metadata",
          [layer |-> layer, enricher |-> enricher_name,
           node_count |-> Len(graph.nodes), edge_count |-> Len(graph.edges)])

\* the artifact slot: the file name l{layer}-{enricher_name}.json
LayerSlot(layer, enricher_name) == <<layer, enricher_name>>

\* for layer, data in node['enrichment'].items(): copy classification, patterns
RECURSIVE add_summaries(_, _, _)
add_summaries(entry, items, i) ==
  IF i > Len(items)
  THEN entry
  ELSE LET data == items[i].data
           e1 == IF "classification" \in DOMAIN data
                 THEN DictSet(entry, "classification", data.classification)
                 ELSE entry
           e2 == IF "patterns" \in DOMAIN data
                 THEN DictSet(e1, "patterns", data.patterns)
                 ELSE e1
       IN add_summaries(e2, items, i + 1)

\* as IndexedTypes, functions left out
IndexedTypes_ClassesOnly == {"class"}

\* as IndexedTypes, files indexed too
IndexedTypes_WithFiles == {"class", "function", "file"}

IndexedTypes == {"class", "function"}

RECURSIVE entity_index_of(_, _, _)
entity_index_of(nodes, i, entity_index) ==
  IF i > Len(nodes)
  THEN entity_index
  ELSE LET node == nodes[i]
           entry == [name |-> node.name, type |-> node.type,
                     path |-> node.path, location |-> node.location]
       IN IF node.type \in IndexedTypes
          THEN entity_index_of(nodes, i + 1,
                 DictSet(entity_index, node.id,
                         add_summaries(entry, DictGet(node, "enrichment", EmptyEnrichment), 1)))
          ELSE entity_index_of(nodes, i + 1, entity_index)

save_indexes(graph) == entity_index_of(graph.nodes, 1, EmptyDict)

(***************************************************************************)
(* State of one IterativeEnricher and of the enrich call in progress.      *)
(***************************************************************************)
VARIABLES
  heap,               \* reference -> graph document (the Python objects)
  base_graph,         \* self.base_graph (a reference)
  enrichers,          \* self.enrichers
  layers,             \* self.layers: the History, a list of references
  layer_files,        \* enrichment/l{layer}-{name}.json, by slot
  index_file,         \* enrichment/indexes/entity-index.json: << >> or <<index>>
  final_file,         \* code-graph-enriched.json: << >> or <<document>>
  pc,                 \* position in enrich: idle, loop, pass, check, finalize,
                      \* done, raised
  state,              \* Idle, Running, Converged, Stalled, Exhausted, Failed
  max_iterations,     \* arguments of the enrich call
  convergence_check,
  iteration,          \* loop variable of range(max_iterations)
  passIdx,            \* position of the inner loop in self.enrichers
  graph,              \* local variable graph (a reference, 0 before enrich)
  prev_hash,          \* << >> for None, else <<hash>>
  iteration_changed,
  result,             \* the reference returned by the last enrich (0: none)
  runs,               \* enrich calls started
  base_doc,           \* the document the controller was constructed with
  lastCall,           \* the latest process call of this run: the pass, the
                      \* graph passed (as it was), whether that object is as
                      \* it was after the call, the History list passed and
                      \* the object returned (references)
  ran,                \* positions of the passes processed in this iteration
  changed,            \* <<iteration, position>> of the process calls of this
                      \* run whose result differs in fingerprint from their argument
  history_at_start,   \* length of the History when this run began
  executed,           \* iterations begun in this run
  iter_ends,          \* the working graph as it stood at the end of each
                      \* iteration of this run
  written,            \* [entity, key, by]: the pass `by` attached metadata
                      \* under `key` to the entity <<"node" or "edge", position>>
                      \* during this run
  failure,            \* the process call of this run that raised, if any
  artifacts_at_start  \* the index and final artifacts when this run began

vars == <<heap, base_graph, enrichers, layers, layer_files, index_file,
          final_file, pc, state, max_iterations, convergence_check, iteration,
          passIdx, graph, prev_hash, iteration_changed, result, runs,
          base_doc, lastCall, ran, changed, history_at_start, executed,
          iter_ends, written, failure, artifacts_at_start>>

NoCall == [run |-> 0]

NoFailure == [run |-> 0]

\* the objects still referenced
Collect(h, roots) == [r \in (roots \cap DOMAIN h) |-> h[r]]

\* self.layers as the pass sees it
Context(h, refs) == [i \in DOMAIN refs |-> h[refs[i]]]

\* IterativeEnricher.__init__
Init ==
  /\ base_doc \in BaseGraphs
  /\ heap = (1 :> base_doc)
  /\ base_graph = 1
  /\ enrichers = << >>
  /\ layers = << >>
  /\ layer_files = EmptyDict
  /\ index_file = << >>
  /\ final_file = << >>
  /\ pc = "idle"
  /\ state = "Idle"
  /\ max_iterations = 0
  /\ convergence_check = TRUE
  /\ iteration = 0
  /\ passIdx = 0
  /\ graph = 0
  /\ prev_hash = << >>
  /\ iteration_changed = FALSE
  /\ result = 0
  /\ runs = 0
  /\ lastCall = NoCall
  /\ ran = << >>
  /\ changed = {}
  /\ history_at_start = 0
  /\ executed = 0
  /\ iter_ends = << >>
  /\ written = {}
  /\ failure = NoFailure
  /\ artifacts_at_start = [index_file |-> << >>, final_file |-> << >>]

\* add_enricher(enricher); the passes are registered before enrich is
\* called, and no pass is registered twice
add_enricher(enricher) ==
  /\ pc = "idle"
  /\ Len(enrichers) < MaxPasses
  /\ enricher \notin Range(enrichers)
  /\ enrichers' = Append(enrichers, enricher)
  /\ UNCHANGED <<heap, base_graph, layers, layer_files, index_file, final_file,
                 pc, state, max_iterations, convergence_check, iteration,
                 passIdx, graph, prev_hash, iteration_changed, result, runs,
                 base_doc, lastCall, ran, changed, history_at_start, executed,
                 iter_ends, written,
                 failure, artifacts_at_start>>

\* as InitialPrevHash, seeded with the fingerprint of the starting graph
InitialPrevHash_Seeded(g) == <<compute_hash(g)>>

\* prev_hash = None
InitialPrevHash(g) == << >>

\* enrich(mi, cc) up to the loop: graph = deep copy of base_graph.  A later
\* call on the same controller repeats the arguments of the first; no call
\* follows one that raised.
EnrichStart(mi, cc) ==
  /\ pc \in {"idle", "done"}
  /\ runs < MaxRuns
  /\ HasContainers(heap[base_graph])
  /\ runs > 0 => (mi = max_iterations /\ cc = convergence_check)
  /\ LET ref == NewRef(heap)
         h == DictSet(heap, ref, JsonRoundTrip(heap[base_graph]))
     IN /\ graph' = ref
        /\ heap' = Collect(h, {base_graph, ref} \cup Range(layers))
        /\ prev_hash' = InitialPrevHash(h[ref])
  /\ max_iterations' = mi
  /\ convergence_check' = cc
  /\ iteration' = 0
  /\ passIdx' = 0
  /\ iteration_changed' = FALSE
  /\ result' = 0
  /\ runs' = runs + 1
  /\ state' = "Running"
  /\ pc' = "loop"
  /\ ran' = << >>
  /\ changed' = {}
  /\ history_at_start' = Len(layers)
  /\ lastCall' = NoCall
  /\ executed' = 0
  /\ iter_ends' = << >>
  /\ written' = {}
  /\ failure' = NoFailure
  /\ artifacts_at_start' = [index_file |-> index_file, final_file |-> final_file]
  /\ UNCHANGED <<base_graph, enrichers, layers, layer_files, index_file,
                 final_file, base_doc>>

\* enrich on a base document that lacks 'nodes' or 'edges': the line that
\* prints their sizes raises KeyError
EnrichRaises ==
  /\ pc \in {"idle", "done"}
  /\ runs < MaxRuns
  /\ ~HasContainers(heap[base_graph])
  /\ runs' = runs + 1
  /\ failure' = [run |-> runs + 1, iteration |-> 0, index |-> 0, error |-> "KeyError"]
  /\ artifacts_at_start' = [index_file |-> index_file, final_file |-> final_file]
  /\ state' = "Failed"
  /\ pc' = "raised"
  /\ UNCHANGED <<heap, base_graph, enrichers, layers, layer_files, index_file,
                 final_file, max_iterations, convergence_check, iteration,
                 passIdx, graph, prev_hash, iteration_changed, result,
                 base_doc, lastCall, ran, changed, history_at_start, executed,
                 iter_ends, written>>

\* as InRange, one value more
InRange_Inclusive(i, n) == i <= n

\* i is a value of range(n)
InRange(i, n) == i < n

\* for iteration in range(max_iterations): the next iteration begins
BeginIteration ==
  /\ pc = "loop"
  /\ InRange(iteration, max_iterations)
  /\ iteration_changed' = FALSE
  /\ passIdx' = 1
  /\ ran' = << >>
  /\ executed' = executed + 1
  /\ pc' = IF enrichers = << >> THEN "check" ELSE "pass"
  /\ UNCHANGED <<heap, base_graph, enrichers, layers, layer_files, index_file,
                 final_file, state, max_iterations, convergence_check,
                 iteration, graph, prev_hash, result, runs, base_doc, lastCall,
                 changed, history_at_start, iter_ends, written,
                 failure, artifacts_at_start>>

\* range(max_iterations) is used up: the loop ends without a break
LoopExhausted ==
  /\ pc = "loop"
  /\ ~InRange(iteration, max_iterations)
  /\ state' = "Exhausted"
  /\ pc' = "finalize"
  /\ UNCHANGED <<heap, base_graph, enrichers, layers, layer_files, index_file,
                 final_file, max_iterations, convergence_check, iteration,
                 passIdx, graph, prev_hash, iteration_changed, result, runs,
                 base_doc, lastCall, ran, changed, history_at_start, executed,
                 iter_ends, written,
                 failure, artifacts_at_start>>

\* as HistoryArg, only the latest snapshot handed on
HistoryArg_LatestOnly(refs) == IF refs = << >> THEN refs ELSE <<refs[Len(refs)]>>

\* the context argument of process: self.layers itself
HistoryArg(refs) == refs

\* the entities the pass p attaches metadata to when it processes g
Writes(p, g, context) ==
  {[entity |-> <<"node", i>>, key |-> LayerKey(p.layer_num), by |-> p] :
     i \in {n \in DOMAIN g.nodes : enrich_node(p, g.nodes[n], g, context) # EmptyDict}}
  \cup
  {[entity |-> <<"edge", i>>, key |-> LayerKey(p.layer_num), by |-> p] :
     i \in {e \in DOMAIN g.edges : enrich_edge(p, g.edges[e], g, context) # EmptyDict}}

\* as HashChanged, every pass taken to have changed the fingerprint
HashChanged_Always(prev_graph_hash, new_graph_hash) == TRUE

\* if new_graph_hash != prev_graph_hash
HashChanged(prev_graph_hash, new_graph_hash) == new_graph_hash # prev_graph_hash

\* as AfterPass, the inner loop left after its first pass
AfterPass_StopEarly(i) == "check"

\* where the inner loop goes after the pass at position i
AfterPass(i) == IF i < Len(enrichers) THEN "pass" ELSE "check"

\* process raises TypeError on g: some edge is a string, and the pass reads
\* a field of it or returns metadata for it, which process cannot attach
Raises(p, g) ==
  /\ p.kind \notin {"null", "context_aware"}
  /\ \E i \in DOMAIN g.edges : ~IsObject(g.edges[i])

\* the body of: for enricher in self.enrichers
ApplyEnricher ==
  /\ pc = "pass"
  /\ ~Raises(enrichers[passIdx], heap[graph])
  /\ LET enricher == enrichers[passIdx]
         history == HistoryArg(layers)
         context == Context(heap, history)
         prev_graph_hash == compute_hash(heap[graph])
         call == process(enricher, heap, graph, context)
         new_graph == call.heap[call.ret]
         new_graph_hash == compute_hash(new_graph)
     IN /\ graph' = call.ret
        /\ heap' = Collect(call.heap, {base_graph, call.ret} \cup Range(layers))
        /\ layer_files' = DictSet(layer_files,
                                  LayerSlot(enricher.layer_num, enricher.name),
                                  layer_document(new_graph, enricher.layer_num, enricher.name))
        /\ iteration_changed' = (iteration_changed
                                   \/ HashChanged(prev_graph_hash, new_graph_hash))
        /\ lastCall' = [run |-> runs, iteration |-> iteration + 1, index |-> passIdx,
                        enricher |-> enricher, arg_ref |-> graph, arg |-> heap[graph],
                        arg_intact |-> (call.heap[graph] = heap[graph]),
                        context |-> history, ret |-> call.ret,
                        prev_ret |-> IF lastCall = NoCall THEN 0 ELSE lastCall.ret,
                        wrote |-> Writes(enricher, heap[graph], context)]
        /\ written' = written \cup Writes(enricher, heap[graph], context)
        /\ changed' = IF HashChanged(prev_graph_hash, new_graph_hash)
                       THEN changed \cup {<<iteration + 1, passIdx>>}
                       ELSE changed
  /\ ran' = Append(ran, passIdx)
  /\ pc' = AfterPass(passIdx)
  /\ passIdx' = passIdx + 1
  /\ UNCHANGED <<base_graph, enrichers, layers, index_file, final_file, state,
                 max_iterations, convergence_check, iteration, prev_hash,
                 result, runs, base_doc, history_at_start, executed, iter_ends,
                 failure, artifacts_at_start>>

\* as AfterRaise, the exception swallowed and the inner loop carried on
AfterRaise_Swallowed(i) == AfterPass(i)

\* where enrich goes when process raises: nothing catches the exception, it
\* leaves enrich
AfterRaise(i) == "raised"

\* the body of: for enricher in self.enrichers, when process raises: on a
\* malformed document as Raises says (enrich_node has been called by then),
\* on any document when the code of the pass itself raises
ProcessRaises ==
  /\ pc = "pass"
  /\ failure' = [run |-> runs, iteration |-> iteration + 1, index |-> passIdx,
                 enricher |-> enrichers[passIdx],
                 error |-> IF Raises(enrichers[passIdx], heap[graph])
                           THEN "TypeError" ELSE "PassError",
                 entity_calls |-> (Raises(enrichers[passIdx], heap[graph])
                                   /\ heap[graph].nodes # << >>)]
  /\ state' = "Failed"
  /\ pc' = AfterRaise(passIdx)
  /\ UNCHANGED <<heap, base_graph, enrichers, layers, layer_files, index_file,
                 final_file, max_iterations, convergence_check, iteration,
                 passIdx, graph, prev_hash, iteration_changed, result, runs,
                 base_doc, lastCall, ran, changed, history_at_start, executed,
                 iter_ends, written, artifacts_at_start>>

\* as IsConverged, any earlier fingerprint accepted
IsConverged_AnyPrevious(cc, prev, current_hash) == cc /\ prev # << >>

\* as IsConverged, the flag not looked at
IsConverged_FlagIgnored(cc, prev, current_hash) == prev = <<current_hash>>

\* if convergence_check and current_hash == prev_hash
IsConverged(cc, prev, current_hash) == cc /\ prev = <<current_hash>>

\* as NextPrevHash, the assignment forgotten
NextPrevHash_Stale(prev, current_hash) == prev

\* prev_hash = current_hash
NextPrevHash(prev, current_hash) == <<current_hash>>

\* as StopTest, the no-change test made before the convergence test
StopTest_NoChangeFirst(cc, prev, current_hash, any_change) ==
  IF ~any_change THEN "Stalled"
  ELSE IF IsConverged(cc, prev, current_hash) THEN "Converged"
  ELSE "Continue"

\* the two tests at the end of an iteration, in the order of the code: the
\* break on convergence, then the break on an iteration without change
StopTest(cc, prev, current_hash, any_change) ==
  IF IsConverged(cc, prev, current_hash) THEN "Converged"
  ELSE IF ~any_change THEN "Stalled"
  ELSE "Continue"

\* as SnapshotTarget, the working graph itself appended
SnapshotTarget_Alias(h, ref) == ref

\* the object appended to self.layers: json.loads(json.dumps(graph)), a new
\* object
SnapshotTarget(h, ref) == NewRef(h)

\* self.layers.append(deep copy of graph), then the two stop tests
EndIteration ==
  /\ pc = "check"
  /\ LET ref == SnapshotTarget(heap, graph)
         current_hash == compute_hash(heap[graph])
     IN /\ heap' = DictSet(heap, ref, JsonRoundTrip(heap[graph]))
        /\ layers' = Append(layers, ref)
        /\ iter_ends' = Append(iter_ends, heap[graph])
        /\ IF StopTest(convergence_check, prev_hash, current_hash,
                       iteration_changed) # "Continue"
           THEN /\ state' = StopTest(convergence_check, prev_hash, current_hash,
                                     iteration_changed)
                /\ pc' = "finalize"
                /\ UNCHANGED <<prev_hash, iteration>>
           ELSE /\ prev_hash' = NextPrevHash(prev_hash, current_hash)
                /\ iteration' = iteration + 1
                /\ pc' = "loop"
                /\ UNCHANGED state
  /\ UNCHANGED <<base_graph, enrichers, layer_files, index_file, final_file,
                 max_iterations, convergence_check, passIdx, graph,
                 iteration_changed, result, runs, base_doc, lastCall, ran,
                 changed, history_at_start, executed, written,
                 failure, artifacts_at_start>>

\* as FinalGraph, the base graph taken in place of the working graph
FinalGraph_Base(working, base) == base

\* the graph the last statements of enrich work on: the local variable graph
FinalGraph(working, base) == working

\* _save_indexes(graph), the final artifact, return graph
Finalize ==
  /\ pc = "finalize"
  /\ index_file' = <<save_indexes(heap[FinalGraph(graph, base_graph)])>>
  /\ final_file' = <<heap[FinalGraph(graph, base_graph)]>>
  /\ result' = FinalGraph(graph, base_graph)
  /\ pc' = "done"
  /\ UNCHANGED <<heap, base_graph, enrichers, layers, layer_files, state,
                 max_iterations, convergence_check, iteration, passIdx, graph,
                 prev_hash, iteration_changed, runs, base_doc, lastCall, ran,
                 changed, history_at_start, executed, iter_ends, written,
                 failure, artifacts_at_start>>

MaxIterationsArgs == (-1) .. MaxIter

Next ==
  \/ \E enricher \in Passes : add_enricher(enricher)
  \/ \E mi \in MaxIterationsArgs, cc \in BOOLEAN : EnrichStart(mi, cc)
  \/ EnrichRaises
  \/ BeginIteration
  \/ LoopExhausted
  \/ ApplyEnricher
  \/ ProcessRaises
  \/ EndIteration
  \/ Finalize

Spec == Init /\ [][Next]_vars

\* cli.main: the passes it registers, in registration order
CliPipeline == <<StructuralPass, SemanticPass, DomainPass>>

\* cli.main: the three add_enricher calls, made once the graph is loaded
CliRegister ==
  /\ pc = "idle"
  /\ runs = 0
  /\ HasContainers(heap[base_graph])
  /\ Len(enrichers) < Len(CliPipeline)
  /\ enrichers' = Append(enrichers, CliPipeline[Len(enrichers) + 1])
  /\ UNCHANGED <<heap, base_graph, layers, layer_files, index_file, final_file,
                 pc, state, max_iterations, convergence_check, iteration,
                 passIdx, graph, prev_hash, iteration_changed, result, runs,
                 base_doc, lastCall, ran, changed, history_at_start, executed,
                 iter_ends, written,
                 failure, artifacts_at_start>>

\* cli.main: the one enrich call, with the parsed arguments
CliEnrich ==
  /\ enrichers = CliPipeline
  /\ runs = 0
  /\ \E mi \in MaxIterationsArgs, cc \in BOOLEAN : EnrichStart(mi, cc)

\* cli.main: the summary of the loaded graph indexes an absent container
CliLoadRaises ==
  /\ enrichers = << >>
  /\ runs = 0
  /\ EnrichRaises

CliNext ==
  \/ CliRegister
  \/ CliEnrich
  \/ CliLoadRaises
  \/ BeginIteration
  \/ LoopExhausted
  \/ ApplyEnricher
  \/ ProcessRaises
  \/ EndIteration
  \/ Finalize

CliSpec == Init /\ [][CliNext]_vars

\* a step of the enrich call in progress that does not raise
RunStep == BeginIteration \/ LoopExhausted \/ ApplyEnricher \/ EndIteration \/ Finalize

TypeOK ==
  /\ pc \in {"idle", "loop", "pass", "check", "finalize", "done", "raised"}
  /\ state \in {"Idle", "Running", "Converged", "Stalled", "Exhausted", "Failed"}
  /\ base_graph \in DOMAIN heap
  /\ \A i \in DOMAIN layers : layers[i] \in DOMAIN heap
  /\ graph # 0 => graph \in DOMAIN heap

(***************************************************************************)
(* Properties                                                              *)
(***************************************************************************)
\* the 1-based number of the iteration the run is in (or stopped at)
IterationNo == iteration + 1

\* the run has just decided to stop (break, or the loop used up)
Stopped == pc = "finalize"

\* a pass whose output depends on the identity of the node or edge alone
IdentityPure(p) == p.kind \in {"mock", "null", "semantic"}

PurePipeline == \A i \in DOMAIN enrichers : IdentityPure(enrichers[i])

\* some pass changed the fingerprint during iteration n of this run
ChangedIn(n) == \E c \in changed : c[1] = n

C1_Case == Stopped /\ PurePipeline /\ max_iterations >= 2 /\ convergence_check

\* C1 as stated: a pipeline of identity-pure passes, run on a fresh
\* controller with max_iterations >= 2 and convergence_check, stops at
\* iteration 2 in state Converged with exactly 2 snapshots in the History.
C1_AsStated ==
  (C1_Case /\ runs = 1 /\ enrichers # << >>)
    => (state = "Converged" /\ IterationNo = 2 /\ Len(layers) = 2)

\* C1 (amended): a pipeline of identity-pure passes run with
\* max_iterations >= 2 and convergence_check stops at iteration 2 in state
\* Converged, having added exactly 2 snapshots to the History, when some pass
\* changed the fingerprint in iteration 1; when none did it stops at
\* iteration 1 in state Stalled, having added exactly 1 snapshot.
C1_ConvergesAtTwoOrStallsAtOne ==
  C1_Case =>
    IF ChangedIn(1)
    THEN state = "Converged" /\ IterationNo = 2 /\ Len(layers) = history_at_start + 2
    ELSE state = "Stalled" /\ IterationNo = 1 /\ Len(layers) = history_at_start + 1

C1_Witness ==
  /\ C1_Case /\ enrichers # << >> /\ runs = 1
  /\ state = "Converged" /\ IterationNo = 2 /\ Len(layers) = 2

\* every pass of the pipeline returns no enrichment for every node and edge
NoEnrichmentPipeline ==
  \A i \in DOMAIN enrichers :
    /\ ~Raises(enrichers[i], base_doc)
    /\ \A n \in DOMAIN base_doc.nodes :
         enrich_node(enrichers[i], base_doc.nodes[n], base_doc, << >>) = EmptyDict
    /\ \A e \in DOMAIN base_doc.edges :
         enrich_edge(enrichers[i], base_doc.edges[e], base_doc, << >>) = EmptyDict

\* C2: when every pass returns no enrichment for every node and every edge,
\* a run with max_iterations >= 1 stops in state Stalled at iteration 1,
\* convergence_check enabled or not.
C2_NoEnrichmentStallsAtOne ==
  (Stopped /\ NoEnrichmentPipeline /\ max_iterations >= 1)
    => (state = "Stalled" /\ IterationNo = 1)

C2_Witness ==
  /\ Stopped /\ NoEnrichmentPipeline /\ max_iterations >= 2 /\ convergence_check
  /\ enrichers # << >> /\ base_doc.nodes # << >>
  /\ state = "Stalled" /\ IterationNo = 1

\* C3: no run is in state Converged at iteration 1.
C3_NoConvergenceAtOne == state = "Converged" => IterationNo >= 2

C3_Witness == state = "Converged" /\ IterationNo = 2 /\ Stopped

\* the enrichment map of an entity ({} when it has none)
EnrichmentOf(entity) == DictGet(entity, "enrichment", EmptyEnrichment)

HasLayers(entity, keys) == keys \subseteq EnrKeys(EnrichmentOf(entity))

C4_Scenario ==
  /\ base_doc = sample_graph
  /\ enrichers = <<MockLayer1, MockLayer2>>
  /\ max_iterations = 2 /\ ~convergence_check
  /\ runs = 1 /\ pc = "done"

\* C4: the end-to-end scenario (sample graph of 5 nodes and 5 edges, passes
\* of layers 1 and 2 stamping every node and edge, max_iterations = 2,
\* convergence_check off) ends with layer1 and layer2 on every node and
\* edge of the returned graph, a History of exactly 2 snapshots, exactly two
\* layer artifacts, one per pass, and an index of exactly 4 entries: the
\* class and the 3 functions.
C4_EndToEnd ==
  C4_Scenario =>
    LET final == heap[result]
    IN /\ Len(final.nodes) = 5 /\ Len(final.edges) = 5
       /\ \A i \in DOMAIN final.nodes : HasLayers(final.nodes[i], {"layer1", "layer2"})
       /\ \A i \in DOMAIN final.edges : HasLayers(final.edges[i], {"layer1", "layer2"})
       /\ Len(layers) = 2
       /\ DOMAIN layer_files = {LayerSlot(1, "layer1"), LayerSlot(2, "layer2")}
       /\ DOMAIN index_file[1] = {"class1", "func1", "func2", "func3"}

C4_Witness == C4_Scenario /\ index_file # << >> /\ Cardinality(DOMAIN index_file[1]) = 4

\* C5: every process call of iteration i receives as History the snapshots
\* the History held when the run began (none on a fresh controller)
\* followed by exactly the i-1 graphs taken at the end of iterations
\* 1..i-1 of the run, in order; and when the run has executed k iterations
\* it has appended exactly k snapshots: one per iteration, not one per pass.
C5_HistoryPerIteration ==
  /\ lastCall # NoCall =>
       LET context == Context(heap, lastCall.context)
       IN /\ Len(context) = history_at_start + lastCall.iteration - 1
          /\ SubSeq(context, history_at_start + 1, Len(context))
               = SubSeq(iter_ends, 1, lastCall.iteration - 1)
          /\ runs = 1 => context = SubSeq(iter_ends, 1, lastCall.iteration - 1)
  /\ pc \in {"finalize", "done"} =>
       /\ Len(layers) = history_at_start + executed
       /\ SubSeq(Context(heap, layers), history_at_start + 1, Len(layers)) = iter_ends
       /\ runs = 1 => Len(layers) = executed

C5_Witness ==
  /\ runs = 1 /\ lastCall # NoCall /\ lastCall.iteration = 3 /\ lastCall.index = 2
  /\ Len(lastCall.context) = 2
  /\ pc = "done" /\ executed = 3 /\ Len(layers) = 3

\* C6 as stated: once a pass has written layer key k of a node or edge, no
\* other registered pass writes key k of that entity.
C6_NonOverwrite ==
  \A w1 \in written, w2 \in written :
    (w1.entity = w2.entity /\ w1.key = w2.key) => w1.by = w2.by

\* C7: process(graph, history) returns a new graph object and leaves its
\* argument as it was; enrich leaves the base document as it was, and every
\* run starts from a copy of it that is an object of its own.
C7_NoMutationOfInputs ==
  /\ heap[base_graph] = base_doc
  /\ lastCall # NoCall =>
       /\ lastCall.arg_intact
       /\ lastCall.ret # lastCall.arg_ref
       /\ lastCall.ret \notin {base_graph} \cup Range(layers)
  /\ (pc = "loop" /\ executed = 0) =>
       /\ graph \notin {base_graph} \cup Range(layers)
       /\ heap[graph] = base_doc

C7_Witness ==
  /\ runs = 2 /\ lastCall # NoCall /\ lastCall.arg_intact
  /\ heap[lastCall.ret] # lastCall.arg
  /\ heap[base_graph] = base_doc /\ base_doc.nodes # << >>

\* the fields of an entity other than its enrichment map
Identity(entity) == [f \in DOMAIN entity \ {"enrichment"} |-> entity[f]]

\* what process must make of the entity `before`, given the metadata the
\* pass returned for it
ProcessedAs(before, after, key, metadata) ==
  /\ Identity(after) = Identity(before)
  /\ metadata # EmptyDict =>
       /\ key \in EnrKeys(EnrichmentOf(after))
       /\ EnrGet(EnrichmentOf(after), key) = metadata
  /\ \A k \in EnrKeys(EnrichmentOf(before)) \ {key} :
       /\ k \in EnrKeys(EnrichmentOf(after))
       /\ EnrGet(EnrichmentOf(after), k) = EnrGet(EnrichmentOf(before), k)

\* C8: the graph process returns for a pass of layer N has the nodes and
\* edges of the input graph; every node and edge for which enrich_node /
\* enrich_edge returned non-empty metadata carries exactly that metadata
\* under layerN, and every other layer key the entity had is kept with its
\* value.
C8_ProcessAttachesOwnLayer ==
  lastCall # NoCall =>
    LET p == lastCall.enricher
        in == lastCall.arg
        out == heap[lastCall.ret]
        context == Context(heap, lastCall.context)
        key == LayerKey(p.layer_num)
    IN /\ DOMAIN out.nodes = DOMAIN in.nodes
       /\ DOMAIN out.edges = DOMAIN in.edges
       /\ \A i \in DOMAIN in.nodes :
            ProcessedAs(in.nodes[i], out.nodes[i], key,
                        enrich_node(p, in.nodes[i], in, context))
       /\ \A i \in DOMAIN in.edges :
            ProcessedAs(in.edges[i], out.edges[i], key,
                        enrich_edge(p, in.edges[i], in, context))

C8_Witness ==
  /\ lastCall # NoCall /\ lastCall.enricher = MockLayer2
  /\ lastCall.arg.nodes # << >>
  /\ \A i \in DOMAIN lastCall.arg.nodes :
       /\ EnrKeys(EnrichmentOf(lastCall.arg.nodes[i])) = {"layer1"}
       /\ EnrKeys(EnrichmentOf(heap[lastCall.ret].nodes[i])) = {"layer1", "layer2"}
       /\ EnrGet(EnrichmentOf(heap[lastCall.ret].nodes[i]), "layer1")
            = EnrGet(EnrichmentOf(lastCall.arg.nodes[i]), "layer1")

\* the layer-3 data of the node, for a node that has some
Layer3Of(node) == EnrGet(EnrichmentOf(node), "layer3")

\* C9: with A = SemanticEnricher (layer 2) and B = DomainEnricher (layer 3,
\* whose enrich_node reads the layer-2 key of the node): in a pipeline that
\* registers A before B every node B is given carries A's layer and B's
\* output is derived from it (some node gets domain concepts); in a pipeline
\* that registers B before A, the execution of B in iteration 1 finds A's
\* key on no node and attaches its defaults (no concept, no relationship)
\* to every node; the call returns in both cases. From iteration 2 on B
\* is given the layer A attached in the iteration before.
C9_OrderSensitivity ==
  (lastCall # NoCall /\ lastCall.enricher = DomainPass /\ base_doc.nodes # << >>) =>
    LET in == lastCall.arg
        out == heap[lastCall.ret]
    IN /\ enrichers = <<SemanticPass, DomainPass>> =>
            /\ \A i \in DOMAIN in.nodes : HasLayers(in.nodes[i], {"layer2"})
            /\ \A i \in DOMAIN out.nodes : HasLayers(out.nodes[i], {"layer2", "layer3"})
            /\ \E i \in DOMAIN out.nodes : Layer3Of(out.nodes[i]).domain_concepts # {}
       /\ (enrichers = <<DomainPass, SemanticPass>> /\ lastCall.iteration = 1) =>
            /\ \A i \in DOMAIN in.nodes : ~HasLayers(in.nodes[i], {"layer2"})
            /\ \A i \in DOMAIN out.nodes :
                 /\ HasLayers(out.nodes[i], {"layer3"})
                 /\ Layer3Of(out.nodes[i]).domain_concepts = {}
                 /\ Layer3Of(out.nodes[i]).entity_relationships = << >>

\* C9 as stated: in the pipeline that registers B before A, B never finds
\* A's key: every call of B reads an absent key and attaches its defaults.
C9_AsStated ==
  (lastCall # NoCall /\ lastCall.enricher = DomainPass
     /\ enrichers = <<DomainPass, SemanticPass>>) =>
    /\ \A i \in DOMAIN lastCall.arg.nodes : ~HasLayers(lastCall.arg.nodes[i], {"layer2"})
    /\ \A i \in DOMAIN heap[lastCall.ret].nodes :
         Layer3Of(heap[lastCall.ret].nodes[i]).domain_concepts = {}

C9_Witness ==
  /\ lastCall # NoCall /\ lastCall.enricher = DomainPass
  /\ enrichers = <<SemanticPass, DomainPass>> /\ base_doc = sample_graph
  /\ Layer3Of(heap[lastCall.ret].nodes[2]).domain_concepts = {"UserService", "User"}

C9_WitnessDefault ==
  /\ lastCall # NoCall /\ lastCall.enricher = DomainPass
  /\ enrichers = <<DomainPass, SemanticPass>> /\ base_doc = sample_graph
  /\ lastCall.iteration = 1
  /\ Layer3Of(heap[lastCall.ret].nodes[2]).domain_concepts = {}

\* C10: in every executed iteration the registered passes are processed
\* once each, in registration order; each process call is given the graph
\* the call before it returned (the first call of a run: the copy of the
\* base document); a stop (Converged, Stalled) is decided only when every
\* pass of the iteration has been processed.
C10_PassesInOrder ==
  /\ Len(ran) <= Len(enrichers)
  /\ \A i \in DOMAIN ran : ran[i] = i
  /\ pc = "pass" => (state = "Running" /\ passIdx = Len(ran) + 1)
  /\ (pc = "check" \/ state \in {"Converged", "Stalled"}) =>
       (executed > 0 /\ Len(ran) = Len(enrichers))
  /\ ran # << >> =>
       /\ lastCall # NoCall
       /\ lastCall.iteration = executed
       /\ lastCall.index = ran[Len(ran)]
  /\ lastCall # NoCall =>
       /\ lastCall.enricher = enrichers[lastCall.index]
       /\ IF lastCall.prev_ret = 0
          THEN lastCall.arg = base_doc /\ lastCall.arg_ref # base_graph
          ELSE lastCall.arg_ref = lastCall.prev_ret

C10_Witness ==
  /\ pc = "check" /\ Len(enrichers) = 2 /\ ran = <<1, 2>> /\ executed = 2
  /\ lastCall.index = 2 /\ lastCall.arg_ref = lastCall.prev_ret

\* the enrichment maps of the nodes and of the edges of a graph, by position
NodeEnrichments(g) == [i \in DOMAIN g.nodes |-> SortKeys(EnrichmentOf(g.nodes[i]))]

EdgeEnrichments(g) == [i \in DOMAIN g.edges |-> SortKeys(EnrichmentOf(g.edges[i]))]

\* the working graph when the latest iteration began and when it ended
IterationStart == IF executed = 1 THEN base_doc ELSE iter_ends[executed - 1]

IterationEnd == iter_ends[executed]

StalledAtStop == Stopped /\ state = "Stalled"

ConvergedAtStop == pc \in {"finalize", "done"} /\ state = "Converged"

\* the History snapshot taken at the end of the iteration before the last
PreviousSnapshot == heap[layers[Len(layers) - 1]]

IterationsOf(n) == IF n > 0 THEN n ELSE 0

\* enrich has left its loop without raising
LoopLeft == pc \in {"finalize", "done"}

HashAtEnd(n) == compute_hash(iter_ends[n])

C14_Outcome ==
  /\ executed <= IterationsOf(max_iterations)
  /\ LoopLeft =>
       /\ state \in {"Converged", "Stalled", "Exhausted"}
       /\ failure = NoFailure
       /\ state = "Exhausted" =>
            /\ executed = IterationsOf(max_iterations)
            /\ \A n \in 1 .. executed : ChangedIn(n)
            /\ convergence_check =>
                 \A n \in 2 .. executed : HashAtEnd(n) # HashAtEnd(n - 1)
       /\ state = "Stalled" => (executed >= 1 /\ ~ChangedIn(executed))
       /\ state = "Converged" =>
            /\ convergence_check /\ executed >= 2
            /\ HashAtEnd(executed) = HashAtEnd(executed - 1)
  /\ pc = "done" => (result = graph /\ index_file # << >> /\ final_file # << >>)

\* the steps of one iteration: its start, one per pass, its end
IterationSteps == Len(enrichers) + 2

\* an upper bound of the steps the enrich call in progress still takes
StepsLeft ==
  CASE pc = "loop" ->
         (IterationsOf(max_iterations) - iteration) * IterationSteps + 2
    [] pc = "pass" ->
         (IterationsOf(max_iterations) - iteration - 1) * IterationSteps
           + (Len(enrichers) - passIdx + 1) + 3
    [] pc = "check" ->
         (IterationsOf(max_iterations) - iteration - 1) * IterationSteps + 3
    [] pc = "finalize" -> 1
    [] OTHER -> 0

\* the bound on the steps left is never negative, and a running call has a
\* next step: at the head of the loop, at the end of an iteration and at the
\* final statements one is enabled, and in the inner loop the next pass
\* exists (ApplyEnricher asks for nothing more than that it returns)
C14_Progress ==
  /\ StepsLeft >= 0
  /\ pc = "loop" => ENABLED (BeginIteration \/ LoopExhausted)
  /\ pc = "pass" => passIdx \in 1 .. Len(enrichers)
  /\ pc = "check" => ENABLED EndIteration
  /\ pc = "finalize" => ENABLED Finalize

\* C14: for every max_iterations (0 and negative values included) enrich
\* executes at most max(max_iterations, 0) iterations and, when no pass
\* raises, comes to its end in exactly one of Converged, Stalled, Exhausted:
\* Exhausted exactly when max_iterations iterations (possibly none) were
\* executed and none of them met a stop condition, Stalled or Converged when
\* the last executed iteration met that condition; an Exhausted run is
\* finalized and returns like the others.
\* It always comes to its end: every step of the call lowers a bound on the
\* steps left that is never negative, and a call whose passes return always
\* has a next step until it has returned.
C14_Terminates ==
  /\ [](C14_Outcome /\ C14_Progress)
  /\ [][RunStep => StepsLeft' < StepsLeft]_vars

C14_Witness ==
  /\ pc = "done" /\ state = "Exhausted" /\ max_iterations = 3 /\ executed = 3
  /\ convergence_check /\ result = graph

C14_WitnessNoIteration ==
  /\ pc = "done" /\ state = "Exhausted" /\ max_iterations = -1 /\ executed = 0
  /\ enrichers # << >> /\ heap[result] = base_doc

\* the last snapshot of History
LastSnapshot == heap[layers[Len(layers)]]

\* the content the index, the final artifact and the returned graph have
FinalizedWith(G) ==
  /\ heap[result] = G
  /\ final_file = <<G>>
  /\ index_file = <<save_indexes(G)>>

C15_AsStated ==
  pc = "done" => (layers # << >> /\ FinalizedWith(LastSnapshot))

\* C15: when enrich has reached Converged, Stalled or Exhausted and returned,
\* the index was built from, the final artifact holds and the caller got one
\* and the same graph: the working graph as it stood at the end of the last
\* executed iteration, which is the content of the last History snapshot, or,
\* when no iteration was executed (max_iterations <= 0), the unenriched copy
\* of the base graph, of which History has no snapshot.
C15_FinalizesLastGraph ==
  pc = "done" =>
    /\ state \in {"Converged", "Stalled", "Exhausted"}
    /\ executed > 0 =>
         /\ FinalizedWith(iter_ends[executed])
         /\ layers # << >> /\ LastSnapshot = iter_ends[executed]
    /\ executed = 0 =>
         /\ FinalizedWith(base_doc)
         /\ Len(layers) = history_at_start

C15_Witness ==
  /\ pc = "done" /\ state = "Converged" /\ executed = 3
  /\ heap[result] # base_doc /\ LastSnapshot = heap[result]
  /\ final_file = <<heap[result]>>

\* the artifact slot of the pass p
SlotOf(p) == LayerSlot(p.layer_num, p.name)

\* the pass at position lastCall.index has just run as a second or later
\* pass of its iteration
AfterLaterPass ==
  /\ pc \in {"pass", "check", "finalize", "done"}
  /\ lastCall # NoCall /\ lastCall.run = runs
  /\ lastCall.index > 1

\* C16: every execution of a pass writes the graph it produced to the slot
\* named by the pass's (layer_num, name); the slots of different registered
\* passes are distinct, so that a pass's execution leaves the artifact of the
\* pass before it as that pass wrote it: the document of the graph the
\* earlier pass returned, which is the graph the later pass was given.
C16_SlotsArePassSpecific ==
  /\ \A i, j \in DOMAIN enrichers :
       i # j => SlotOf(enrichers[i]) # SlotOf(enrichers[j])
  /\ AfterLaterPass =>
       LET before == enrichers[lastCall.index - 1]
       IN /\ SlotOf(before) \in DOMAIN layer_files
          /\ layer_files[SlotOf(before)]
               = layer_document(lastCall.arg, before.layer_num, before.name)

\* what holds of the slots: the artifact of the pass that ran last is the
\* document of the graph it returned
C16_LastWriteIsInItsSlot ==
  (pc \in {"pass", "check", "finalize", "done"} /\ lastCall # NoCall
     /\ lastCall.run = runs) =>
    /\ SlotOf(lastCall.enricher) \in DOMAIN layer_files
    /\ layer_files[SlotOf(lastCall.enricher)]
         = layer_document(heap[lastCall.ret], lastCall.enricher.layer_num,
                          lastCall.enricher.name)

\* the index file written by the run that has returned
WrittenIndex == index_file[1]

\* the positions of the class and function nodes of g
Addressable(g) == {i \in DOMAIN g.nodes : g.nodes[i].type \in {"class", "function"}}

\* C17: the index built over the final graph has exactly one entry per node
\* of type class or function, under the node's id, with the node's name,
\* type, path and location; a node of another type (a file) has no entry,
\* whatever enrichment it carries.
C17_IndexOfClassesAndFunctions ==
  pc = "done" =>
    LET g == heap[result]
    IN /\ DOMAIN WrittenIndex = {g.nodes[i].id : i \in Addressable(g)}
       /\ Cardinality(DOMAIN WrittenIndex) = Cardinality(Addressable(g))
       /\ \A i \in Addressable(g) :
            LET node == g.nodes[i]
                entry == WrittenIndex[node.id]
            IN /\ entry.name = node.name /\ entry.type = node.type
               /\ entry.path = node.path /\ entry.location = node.location
       /\ \A i \in DOMAIN g.nodes \ Addressable(g) :
            g.nodes[i].id \notin DOMAIN WrittenIndex

C17_Witness ==
  /\ pc = "done"
  /\ \E i \in DOMAIN heap[result].nodes :
       /\ heap[result].nodes[i].type = "file"
       /\ EnrichmentOf(heap[result].nodes[i]) # EmptyEnrichment
  /\ Cardinality(DOMAIN WrittenIndex) = 4

SummaryFields == {"classification", "patterns"}

\* the positions, in the order of the enrichment map e, of the layers whose
\* metadata carries the field f
Carrying(e, f) == {j \in DOMAIN e : f \in DOMAIN e[j].data}

Last(P) == CHOOSE j \in P : \A k \in P : k <= j

\* the last pass executed by the run that has returned attached metadata to
\* the node at position i
WroteLast(i) ==
  /\ lastCall # NoCall /\ lastCall.run = runs
  /\ [entity |-> <<"node", i>>, key |-> LayerKey(lastCall.enricher.layer_num),
      by |-> lastCall.enricher] \in lastCall.wrote

\* C18: the classification and patterns fields of a node's index entry are
\* the most recently written ones among the node's enrichment layers, and
\* absent when no layer carries the field: when the last pass the run
\* executed wrote the node's layer and that layer carries the field, the
\* entry has the value of that layer.
C18_MostRecentlyWritten ==
  pc = "done" =>
    LET g == heap[result]
    IN \A i \in Addressable(g), f \in SummaryFields :
         LET node == g.nodes[i]
             e == EnrichmentOf(node)
             entry == WrittenIndex[node.id]
             k == LayerKey(lastCall.enricher.layer_num)
         IN /\ Carrying(e, f) = {} => f \notin DOMAIN entry
            /\ (WroteLast(i) /\ f \in DOMAIN EnrGet(e, k))
                 => (f \in DOMAIN entry /\ entry[f] = EnrGet(e, k)[f])

\* what holds of the two fields: the entry has the value of the last layer,
\* in the order of the node's enrichment map, that carries the field
C18_LastLayerInMapOrder ==
  pc = "done" =>
    LET g == heap[result]
    IN \A i \in Addressable(g), f \in SummaryFields :
         LET node == g.nodes[i]
             e == EnrichmentOf(node)
             entry == WrittenIndex[node.id]
         IN IF Carrying(e, f) = {}
            THEN f \notin DOMAIN entry
            ELSE f \in DOMAIN entry /\ entry[f] = e[Last(Carrying(e, f))].data[f]

\* a call of process raised in the current run
ProcessFailed == failure # NoFailure /\ failure.iteration >= 1

\* C19: when a pass raises during process, in whatever iteration, the error
\* reaches the caller of enrich and the run stops there: the passes executed
\* are those before the failing one, no later pass and no later iteration
\* runs, nothing is returned, and the run writes neither the index nor the
\* final graph (both artifacts are as they were when the run began), so the
\* partially enriched working graph is not produced as a result.
C19_ErrorAbortsRun ==
  ProcessFailed =>
    /\ pc = "raised" /\ state = "Failed" /\ failure.run = runs
    /\ ~ENABLED RunStep
    /\ executed = failure.iteration /\ iteration = failure.iteration - 1
    /\ passIdx = failure.index
    /\ ran = [j \in 1 .. failure.index - 1 |-> j]
    /\ lastCall # NoCall =>
         \/ lastCall.iteration < failure.iteration
         \/ (lastCall.iteration = failure.iteration /\ lastCall.index < failure.index)
    /\ Len(layers) = history_at_start + failure.iteration - 1
    /\ result = 0
    /\ index_file = artifacts_at_start.index_file
    /\ final_file = artifacts_at_start.final_file
    /\ runs = 1 => (index_file = << >> /\ final_file = << >>)

C19_Witness ==
  /\ pc = "raised" /\ failure.iteration = 2 /\ failure.index = 2
  /\ failure.error = "PassError"
  /\ heap[graph] # base_doc /\ layer_files # EmptyDict
  /\ final_file = << >> /\ result = 0

\* enrich raised before its loop began: no process call, hence no
\* enrich_node and no enrich_edge call, was made
FailedBeforeAnyPass ==
  /\ pc = "raised" /\ state = "Failed"
  /\ failure # NoFailure /\ failure.iteration = 0
  /\ lastCall = NoCall

\* C20: when the base document's top-level nodes or edges container is
\* absent or malformed (not a sequence of node/edge objects), a run fails
\* with an input error before any pass is executed: no process call and no
\* enrich_node or enrich_edge call is made.
C20_MalformedInputRejected ==
  (runs > 0 /\ ~WellFormed(base_doc)) => FailedBeforeAnyPass

\* what holds of such documents: one that lacks a container makes enrich
\* raise KeyError before its loop
C20_AbsentContainerRaises ==
  (runs > 0 /\ ~HasContainers(base_doc)) =>
    (FailedBeforeAnyPass /\ failure.error = "KeyError" /\ layers = << >>
       /\ index_file = << >> /\ final_file = << >>)

\* the ids of the nodes of g
NodeIds(g) == {g.nodes[i].id : i \in DOMAIN g.nodes}

\* the positions of the edges of g of which an endpoint names no node of g
Dangling(g) ==
  {i \in DOMAIN g.edges :
     g.edges[i].source \notin NodeIds(g) \/ g.edges[i].target \notin NodeIds(g)}

BuiltInPasses == {StructuralPass, SemanticPass, DomainPass}

\* the process call recorded in lastCall belongs to the current run and has
\* returned
CallReturned ==
  /\ lastCall # NoCall /\ lastCall.run = runs
  /\ pc \in {"pass", "check", "loop", "finalize", "done"}

\* C21: an edge whose source or target names no node of the graph does not
\* make a built-in pass fail: DomainEnricher returns an empty result for it,
\* so process leaves it without a layer3 key and otherwise as it was, the
\* other two passes enrich it like any edge, and a run of built-in passes on
\* such a graph that is not interrupted ends in Converged, Stalled or
\* Exhausted and returns the graph with that edge in it.
C21_DanglingEdgeSkipped ==
  /\ \A p \in BuiltInPasses :
       (pc = "pass" /\ WellFormed(heap[graph]) /\ Dangling(heap[graph]) # {})
         => ~Raises(p, heap[graph])
  /\ (CallReturned /\ lastCall.enricher \in BuiltInPasses) =>
       LET before == lastCall.arg
           after == heap[lastCall.ret]
       IN /\ Dangling(after) = Dangling(before)
          /\ \A i \in Dangling(before) :
               IF lastCall.enricher = DomainPass
               THEN /\ after.edges[i] = before.edges[i]
                    /\ "layer3" \notin EnrKeys(EnrichmentOf(after.edges[i]))
               ELSE /\ LayerKey(lastCall.enricher.layer_num)
                         \in EnrKeys(EnrichmentOf(after.edges[i]))
                    /\ Identity(after.edges[i]) = Identity(before.edges[i])
  /\ (pc = "done" /\ Range(enrichers) \subseteq BuiltInPasses
        /\ WellFormed(base_doc)) =>
       /\ state \in {"Converged", "Stalled", "Exhausted"}
       /\ Dangling(heap[result]) = Dangling(base_doc)

C21_Witness ==
  /\ pc = "done" /\ lastCall # NoCall /\ lastCall.enricher = DomainPass
  /\ Dangling(heap[result]) # {}
  /\ \E i \in DOMAIN heap[result].nodes :
       "layer3" \in EnrKeys(EnrichmentOf(heap[result].nodes[i]))
  /\ \E i \in DOMAIN heap[result].edges :
       i \notin Dangling(heap[result])

\* no node and no edge of g carries the layer key of the pass p
NoPriorEnrichment(p, g) ==
  /\ \A i \in DOMAIN g.nodes :
       LayerKey(p.layer_num) \notin EnrKeys(EnrichmentOf(g.nodes[i]))
  /\ \A i \in DOMAIN g.edges :
       LayerKey(p.layer_num) \notin EnrKeys(EnrichmentOf(g.edges[i]))

\* the pass about to be executed can be run on the working graph, which
\* carries nothing of it
FirstUseOfPass ==
  /\ pc = "pass"
  /\ ~Raises(enrichers[passIdx], heap[graph])
  /\ NoPriorEnrichment(enrichers[passIdx], heap[graph])

\* C22: process applied twice in succession to the same graph, which carries
\* no enrichment of the pass, with the same History: the first call changes
\* neither the graph nor the snapshots it was given, so the second call is
\* given what the first was given, and the two graphs returned are two
\* objects with identical content, enrichment included.
C22_ProcessTwiceSameContent ==
  FirstUseOfPass =>
    LET p == enrichers[passIdx]
        history == HistoryArg(layers)
        first == process(p, heap, graph, Context(heap, history))
        second == process(p, first.heap, graph, Context(first.heap, history))
    IN /\ first.heap[graph] = heap[graph]
       /\ Context(first.heap, history) = Context(heap, history)
       /\ second.ret # first.ret
       /\ second.heap[second.ret] = first.heap[first.ret]
       /\ second.heap[first.ret] = first.heap[first.ret]
       /\ NodeEnrichments(second.heap[second.ret])
            = NodeEnrichments(first.heap[first.ret])
       /\ EdgeEnrichments(second.heap[second.ret])
            = EdgeEnrichments(first.heap[first.ret])

C22_Witness ==
  /\ FirstUseOfPass /\ enrichers[passIdx] = DomainPass /\ passIdx = 2
  /\ layers # << >>
  /\ LET first == process(DomainPass, heap, graph, Context(heap, HistoryArg(layers)))
     IN /\ first.heap[first.ret] # heap[graph]
        /\ process(DomainPass, first.heap, graph,
                   Context(first.heap, HistoryArg(layers))).ret # first.ret

\* g has the nodes and the edges of the document base, in the same order and
\* with the same fields, the enrichment maps set aside
SameEntities(g, base) ==
  /\ DOMAIN g.nodes = DOMAIN base.nodes
  /\ DOMAIN g.edges = DOMAIN base.edges
  /\ \A i \in DOMAIN base.nodes : Identity(g.nodes[i]) = Identity(base.nodes[i])
  /\ \A i \in DOMAIN base.edges : Identity(g.edges[i]) = Identity(base.edges[i])

\* of the enrichment map `before`, the map `after` changes at most the key
OnlyKeyWritten(before, after, key) ==
  /\ EnrKeys(after) \subseteq EnrKeys(before) \cup {key}
  /\ \A k \in EnrKeys(before) \ {key} :
       k \in EnrKeys(after) /\ EnrGet(after, k) = EnrGet(before, k)

\* C23: the working graph after every pass, every History snapshot, every
\* layer artifact, the final artifact and the returned graph have the nodes
\* and edges of the base document: same number and order, same fields and
\* values apart from the enrichment map. The only thing a process call
\* writes on a node or an edge is the item layerN of its enrichment map, N
\* being the layer number of the pass executed.
C23_IdentityPreserved ==
  /\ pc \in {"loop", "pass", "check", "finalize", "done"} =>
       SameEntities(heap[graph], base_doc)
  /\ \A i \in DOMAIN layers : SameEntities(heap[layers[i]], base_doc)
  /\ \A slot \in DOMAIN layer_files : SameEntities(layer_files[slot], base_doc)
  /\ \A i \in DOMAIN final_file : SameEntities(final_file[i], base_doc)
  /\ pc = "done" => SameEntities(heap[result], base_doc)
  /\ CallReturned =>
       LET before == lastCall.arg
           after == heap[lastCall.ret]
           key == LayerKey(lastCall.enricher.layer_num)
       IN /\ SameEntities(after, before)
          /\ \A i \in DOMAIN before.nodes :
               OnlyKeyWritten(EnrichmentOf(before.nodes[i]),
                              EnrichmentOf(after.nodes[i]), key)
          /\ \A i \in DOMAIN before.edges :
               OnlyKeyWritten(EnrichmentOf(before.edges[i]),
                              EnrichmentOf(after.edges[i]), key)

C23_Witness ==
  /\ pc = "done" /\ runs = 2 /\ executed = 2 /\ Len(enrichers) = 2
  /\ base_doc = sample_graph
  /\ heap[result] # base_doc /\ SameEntities(heap[result], base_doc)
  /\ Len(layers) = 4 /\ Cardinality(DOMAIN layer_files) = 2

Reverse(s) == [i \in 1 .. Len(s) |-> s[Len(s) + 1 - i]]

\* the graph g with its nodes in the opposite order, the items of every
\* enrichment map in the opposite order, and no edge
Rearranged(g) ==
  [nodes |-> Reverse([i \in DOMAIN g.nodes |->
                        IF "enrichment" \in DOMAIN g.nodes[i]
                        THEN [g.nodes[i] EXCEPT !.enrichment = Reverse(@)]
                        ELSE g.nodes[i]]),
   edges |-> << >>]

\* the positions of the nodes of g that have an enrichment map
Enriched(g) == {i \in DOMAIN g.nodes : "enrichment" \in DOMAIN g.nodes[i]}

\* two enrichment maps with the same keys and the same metadata under them
SameMap(e1, e2) ==
  /\ EnrKeys(e1) = EnrKeys(e2)
  /\ \A k \in EnrKeys(e1) : EnrGet(e1, k) = EnrGet(e2, k)

\* the number of nodes of g whose enrichment map is the map e
Occurrences(g, e) ==
  Cardinality({i \in Enriched(g) : SameMap(g.nodes[i].enrichment, e)})

\* g1 and g2 carry the same collection of node enrichment maps
SameCollection(g1, g2) ==
  /\ \A i \in Enriched(g1) :
       Occurrences(g1, g1.nodes[i].enrichment) = Occurrences(g2, g1.nodes[i].enrichment)
  /\ \A i \in Enriched(g2) :
       Occurrences(g1, g2.nodes[i].enrichment) = Occurrences(g2, g2.nodes[i].enrichment)

\* the graphs the program keeps: the base graph and the snapshots of History
Graphs == {heap[base_graph]} \cup {heap[layers[i]] : i \in DOMAIN layers}

\* the graph the program is working on: every graph object was this one, or
\* a copy of it, when it was made
Current == IF graph = 0 THEN heap[base_graph] ELSE heap[graph]

\* C24: the fingerprint is determined by the collection of the nodes'
\* enrichment maps and by nothing else: two graphs have equal fingerprints
\* exactly when their nodes carry the same maps the same number of times
\* (the digest taken as collision-free), so that the order of the nodes, the
\* order of the keys inside a map and the edges do not count, and a graph
\* whose collection of maps differs, as after enrichment was added to a
\* node, has a different fingerprint.  Stated of the graph the run starts
\* from and of the graph at the end of every iteration, where the program
\* takes the fingerprint it compares, against the base graph and every
\* snapshot.
C24_FingerprintOfNodeEnrichments ==
  pc \in {"idle", "check"} => \A g1 \in {Current} :
    /\ compute_hash(Rearranged(g1)) = compute_hash(g1)
    /\ \A g2 \in Graphs :
         (compute_hash(g1) = compute_hash(g2)) <=> SameCollection(g1, g2)

C24_Witness ==
  \E g1 \in {Current}, g2 \in Graphs, g3 \in Graphs :
    /\ pc = "check"
    /\ Rearranged(g1).nodes # g1.nodes
    /\ g2 # heap[base_graph] /\ compute_hash(g1) = compute_hash(g2)
    /\ compute_hash(g3) # compute_hash(g1)
    /\ \E i \in Enriched(g1), j \in Enriched(g1) :
         /\ Len(g1.nodes[i].enrichment) >= 2
         /\ ~SameMap(g1.nodes[i].enrichment, g1.nodes[j].enrichment)
    /\ Enriched(g3) # {}

\* the passes, by position, that changed the fingerprint during iteration n
ChangingPasses(n) == {c[2] : c \in {d \in changed : d[1] = n}}

\* the iterations of this run, from the second on, that have come to their end
LaterIterations == 2 .. Len(iter_ends)

\* C25: from iteration 2 onward the Stalled condition and the Converged
\* condition are one condition: for every iteration i >= 2 that has come to
\* its end, no pass changed the fingerprint during iteration i if and only
\* if the fingerprint at the end of iteration i equals that at the end of
\* iteration i-1.
C25_StalledIffConverged ==
  \A n \in LaterIterations :
    ~ChangedIn(n) <=> HashAtEnd(n) = HashAtEnd(n - 1)

\* what holds of the two conditions: the first implies the second, and when
\* the fingerprints are equal although passes changed the fingerprint during
\* the iteration, at least two passes changed it
C25_StalledImpliesConverged ==
  \A n \in LaterIterations :
    /\ ~ChangedIn(n) => HashAtEnd(n) = HashAtEnd(n - 1)
    /\ (ChangedIn(n) /\ HashAtEnd(n) = HashAtEnd(n - 1))
         => Cardinality(ChangingPasses(n)) >= 2
    /\ Cardinality(ChangingPasses(n)) = 1 => HashAtEnd(n) # HashAtEnd(n - 1)

C25_Witness ==
  /\ Len(iter_ends) = 2 /\ ~ChangedIn(2) /\ ChangedIn(1)
  /\ HashAtEnd(2) = HashAtEnd(1) /\ Len(enrichers) = 2

C25_WitnessChangedBack ==
  /\ Len(iter_ends) = 2 /\ ChangingPasses(2) = {1, 2}
  /\ HashAtEnd(2) = HashAtEnd(1)

\* the positions of s in their own order, and in the opposite order
Forward(s) == [i \in 1 .. Len(s) |-> i]

Backward(s) == [i \in 1 .. Len(s) |-> Len(s) + 1 - i]

\* the content process(p, ...) returns for the working graph with the
\* entities visited in the order of the lists, and in the opposite order
ProcessForward(p) ==
  process_visiting(p, heap[graph], Context(heap, HistoryArg(layers)),
                   Forward(heap[graph].nodes), Forward(heap[graph].edges))

ProcessBackward(p) ==
  process_visiting(p, heap[graph], Context(heap, HistoryArg(layers)),
                   Backward(heap[graph].nodes), Backward(heap[graph].edges))

\* the content of the graph process(p, ...) returns for the working graph
ProcessResult(p) ==
  LET call == process(p, heap, graph, Context(heap, HistoryArg(layers)))
  IN call.heap[call.ret]

\* a pass is about to be executed on a working graph of nodes and edges
BeforePass == pc = "pass" /\ WellFormed(heap[graph])

\* C26: for a pass whose enrich_node and enrich_edge are functions of their
\* arguments, the graph process returns does not depend on the order in
\* which the nodes and the edges are visited: visiting them in the opposite
\* order gives the graph that process gives. The passes taken are the pass
\* about to be executed and the pass that ranks a node by the number of
\* nodes carrying layer1 in the graph it is handed.
C26_VisitOrderIrrelevant ==
  BeforePass =>
    \A p \in {enrichers[passIdx], RankPass} :
      /\ ProcessForward(p) = ProcessResult(p)
      /\ ProcessBackward(p) = ProcessForward(p)

\* what holds: the passes of the repository and of its tests do not read,
\* in the graph they are handed, what process attaches, and for them the
\* order of the visits does not count
C26_OrderIrrelevantForKnownPasses ==
  BeforePass =>
    /\ ProcessForward(enrichers[passIdx]) = ProcessResult(enrichers[passIdx])
    /\ ProcessBackward(enrichers[passIdx]) = ProcessForward(enrichers[passIdx])
    /\ ProcessForward(RankPass) = ProcessResult(RankPass)

\* the snapshots are objects of their own: none is the base graph, the
\* working graph or the returned graph, and no two are one object
SnapshotsApart ==
  /\ \A i \in DOMAIN layers :
       /\ layers[i] # base_graph
       /\ pc \in {"loop", "pass", "check", "finalize", "done"} => layers[i] # graph
       /\ pc = "done" => layers[i] # result
  /\ \A i, j \in DOMAIN layers : i # j => layers[i] # layers[j]

\* a later enrich call on the controller begins with a copy of the base
\* document and with the History the earlier calls left
LaterCallKeepsHistory ==
  /\ (pc = "loop" /\ executed = 0) =>
       /\ heap[graph] = base_doc
       /\ Len(layers) = history_at_start
  /\ runs = 1 => history_at_start = 0
  /\ CallReturned =>
       /\ Len(lastCall.context) = history_at_start + lastCall.iteration - 1
       /\ lastCall.context = SubSeq(layers, 1, Len(lastCall.context))
  /\ pc \in {"finalize", "done"} => Len(layers) = history_at_start + executed

\* a step keeps every snapshot History holds, at its place and with its
\* content, and appends at most one
HistoryExtended ==
  /\ Len(layers') \in {Len(layers), Len(layers) + 1}
  /\ \A i \in DOMAIN layers :
       /\ layers'[i] = layers[i]
       /\ heap'[layers[i]] = heap[layers[i]]

\* C27: History is append-only over every sequence of operations: no step of
\* the engine (registration, a pass, the end of an iteration, the final
\* statements, a later enrich call, a failure) changes or removes a snapshot,
\* and the snapshots are objects apart from the working and the returned
\* graph; History is never reset, so a second enrich call on the controller
\* starts from a fresh copy of the base document, appends its snapshots
\* after those of the first call, and its passes are handed the first call's
\* snapshots.
C27_HistoryAppendOnly ==
  /\ [](SnapshotsApart /\ LaterCallKeepsHistory)
  /\ [][HistoryExtended]_vars

C27_Witness ==
  /\ runs = 2 /\ pc = "done" /\ history_at_start = 2 /\ executed = 2
  /\ Len(layers) = 4 /\ lastCall # NoCall /\ Len(lastCall.context) = 3
  /\ heap[layers[1]] # base_doc /\ heap[result] # base_doc

\* the layer keys of the entity
KeysOf(entity) == EnrKeys(EnrichmentOf(entity))

\* every node and edge of g has at least the layer keys it has in g0
KeysKept(g0, g) ==
  /\ \A i \in DOMAIN g0.nodes : KeysOf(g0.nodes[i]) \subseteq KeysOf(g.nodes[i])
  /\ \A i \in DOMAIN g0.edges : KeysOf(g0.edges[i]) \subseteq KeysOf(g.edges[i])

\* the pass of the process call recorded returned an empty result for the
\* entity
ReturnedEmpty(kind, i) ==
  [entity |-> <<kind, i>>, key |-> LayerKey(lastCall.enricher.layer_num),
   by |-> lastCall.enricher] \notin lastCall.wrote

\* C28: process never removes or clears a layer key: a node or edge for
\* which the pass returned an empty result is returned as it was given, its
\* value under the pass's layer key included when it has one (written in an
\* earlier iteration or present in the base document); every entity has,
\* after a process call, at least the layer keys it had before, so that the
\* working graph has at every point of a run at least the keys of the base
\* document and of the ends of the earlier iterations.
C28_LayerKeysOnlyGrow ==
  /\ CallReturned =>
       LET before == lastCall.arg
           after == heap[lastCall.ret]
       IN /\ KeysKept(before, after)
          /\ \A i \in DOMAIN before.nodes :
               ReturnedEmpty("node", i) => after.nodes[i] = before.nodes[i]
          /\ \A i \in DOMAIN before.edges :
               ReturnedEmpty("edge", i) => after.edges[i] = before.edges[i]
  /\ pc \in {"loop", "pass", "check", "finalize", "done"} =>
       /\ KeysKept(base_doc, heap[graph])
       /\ \A n \in DOMAIN iter_ends : KeysKept(iter_ends[n], heap[graph])
       /\ \A n \in DOMAIN iter_ends, m \in DOMAIN iter_ends :
            n <= m => KeysKept(iter_ends[n], iter_ends[m])

C28_Witness ==
  /\ CallReturned /\ lastCall.enricher = NullPass /\ lastCall.iteration = 2
  /\ \E i \in DOMAIN lastCall.arg.nodes :
       /\ ReturnedEmpty("node", i)
       /\ "layer1" \in KeysOf(lastCall.arg.nodes[i])
       /\ "layer1" \notin KeysOf(base_doc.nodes[i])
       /\ heap[lastCall.ret].nodes[i] = lastCall.arg.nodes[i]

\* C29: with convergence_check enabled a run can stop in state Stalled only
\* at iteration 1: when the run has left its loop after an iteration i >= 2
\* in which no pass changed the fingerprint, the fingerprint at the end of
\* iteration i equals that at the end of iteration i-1 and the state is
\* Converged, the convergence test being made before the no-change test.
C29_StalledOnlyAtFirstIteration ==
  (LoopLeft /\ convergence_check) =>
    /\ state = "Stalled" => (executed = 1 /\ ~ChangedIn(1))
    /\ (executed >= 2 /\ ~ChangedIn(executed)) =>
         /\ HashAtEnd(executed) = HashAtEnd(executed - 1)
         /\ state = "Converged"
    /\ (executed >= 2 /\ \A n \in 1 .. executed - 1 : ChangedIn(n)) =>
         (state = "Converged" <=> HashAtEnd(executed) = HashAtEnd(executed - 1))

C29_Witness ==
  /\ pc = "done" /\ convergence_check /\ executed = 3 /\ ~ChangedIn(3)
  /\ state = "Converged" /\ HashAtEnd(3) = HashAtEnd(2) /\ HashAtEnd(2) # HashAtEnd(1)

C29_WitnessStalled ==
  /\ pc = "done" /\ convergence_check /\ state = "Stalled" /\ executed = 1
  /\ enrichers # << >> /\ max_iterations >= 2

\* the graph as snapshot n of the run in progress recorded it
SnapshotOf(n) == heap[layers[history_at_start + n]]

\* C30: with the command line's pipeline, the second iteration leaves the
\* graph of the first as it is: its fingerprint and its content are the first's,
\* no pass of it counts as a change, no run executes a third iteration, and a
\* run allowed three or more iterations never leaves the loop by exhaustion
C30_CliSettlesInTwoIterations ==
  /\ executed <= 2
  /\ Len(iter_ends) >= 2 =>
       /\ iter_ends[2] = iter_ends[1]
       /\ ~ChangedIn(2)
       /\ SnapshotOf(2) = SnapshotOf(1)
  /\ (LoopLeft /\ max_iterations >= 3) => state # "Exhausted"
  /\ (LoopLeft /\ executed = 2) =>
       state = IF convergence_check THEN "Converged" ELSE "Stalled"

C30_Witness ==
  /\ pc = "done" /\ enrichers = CliPipeline /\ base_doc = sample_graph
  /\ max_iterations = 3 /\ ~convergence_check
  /\ executed = 2 /\ state = "Stalled" /\ ChangedIn(1)

============================================================================
